---------------------------- MODULE Spec2Model ----------------------------
(***************************************************************************)
(* State-machine model of the sasa realtime mixing path:                   *)
(*   src/src/renderer/music.rs  (Music handle, MusicRenderer)              *)
(*   src/src/clip.rs            (AudioClip::sample)                        *)
(*                                                                         *)
(* Numbers.  Sample values, amplifiers, positions in seconds and the       *)
(* f64/f32 intermediate values of the render loop are exact rationals      *)
(* <<n, d>>; the scenarios feed the render loop only dyadic rates and      *)
(* values, on which the IEEE operations of the source are exact.  The      *)
(* f32 computations that produce an integer (the sample-rate rescale of    *)
(* prepare, SeekTo, FadeIn, FadeOut) are modelled bit-exactly on a         *)
(* 24-bit significand <<m, e>> = m * 2^e with round-to-nearest-even.       *)
(***************************************************************************)
EXTENDS Integers, Sequences, FiniteSets, TLC

(***************************************************************************)
(* Exact rationals <<n, d>>, d > 0, gcd(n, d) = 1.                         *)
(***************************************************************************)
Abs(x) == IF x < 0 THEN -x ELSE x

RECURSIVE Gcd(_, _)
Gcd(a, b) == IF b = 0 THEN a ELSE Gcd(b, a % b)

RNorm(n, d) ==
    LET g == Gcd(Abs(n), Abs(d))
        s == IF d < 0 THEN -1 ELSE 1
    IN  IF n = 0 THEN <<0, 1>> ELSE <<(s * n) \div g, (s * d) \div g>>

R(n) == <<n, 1>>

RAdd(a, b) ==
    LET g == Gcd(a[2], b[2])
    IN  RNorm(a[1] * (b[2] \div g) + b[1] * (a[2] \div g), (a[2] \div g) * b[2])

RNeg(a) == <<-a[1], a[2]>>

RSub(a, b) == RAdd(a, RNeg(b))

RMul(a, b) ==
    LET g1 == Gcd(Abs(a[1]), b[2])
        g2 == Gcd(Abs(b[1]), a[2])
    IN  IF a[1] = 0 \/ b[1] = 0 THEN <<0, 1>>
        ELSE RNorm((a[1] \div g1) * (b[1] \div g2), (a[2] \div g2) * (b[2] \div g1))

RInv(a) == IF a[1] < 0 THEN <<-a[2], -a[1]>> ELSE <<a[2], a[1]>>

RDiv(a, b) == RMul(a, RInv(b))

RLt(a, b) == a[1] * b[2] < b[1] * a[2]

RLe(a, b) == a[1] * b[2] <= b[1] * a[2]

\* floor of a rational (\div is the floor division of TLA+)
RFloor(a) == a[1] \div a[2]

\* f32::round / f64::round: nearest integer, ties away from zero
RRound(a) ==
    IF a[1] >= 0 THEN (2 * a[1] + a[2]) \div (2 * a[2])
    ELSE -((2 * (-a[1]) + a[2]) \div (2 * a[2]))

\* `x as usize` of a float: truncation, saturating at 0 for negatives
AsUsize(a) == IF a[1] < 0 THEN 0 ELSE RFloor(a)

(***************************************************************************)
(* IEEE-754 binary32 on non-negative values: <<m, e>> stands for m * 2^e   *)
(* with 0 <= m < 2^24; every operation rounds to nearest, ties to even.    *)
(***************************************************************************)
RECURSIVE Pow2(_)
Pow2(k) == IF k = 0 THEN 1 ELSE 2 * Pow2(k - 1)

RECURSIVE BitLen(_)
BitLen(n) == IF n = 0 THEN 0 ELSE 1 + BitLen(n \div 2)

RECURSIVE Log2(_)
Log2(d) == IF d <= 1 THEN 0 ELSE 1 + Log2(d \div 2)

\* m / 2^s rounded to nearest-even, as a significand with exponent e + s
F32RoundShift(m, s, e) ==
    LET q    == m \div Pow2(s)
        rem  == m % Pow2(s)
        half == Pow2(s - 1)
        up   == rem > half \/ (rem = half /\ q % 2 = 1)
        q1   == IF up THEN q + 1 ELSE q
    IN  IF q1 = 16777216 THEN <<8388608, e + s + 1>> ELSE <<q1, e + s>>

F32Norm(m, e) ==
    IF m < 16777216 THEN <<m, e>> ELSE F32RoundShift(m, BitLen(m) - 24, e)

\* `n as f32` for an unsigned integer n < 2^31
F32OfNat(n) == F32Norm(n, 0)

\* an f32 argument given as a dyadic rational n / 2^k, n >= 0
F32OfRat(a) == F32Norm(a[1], -Log2(a[2]))

F32Mul(a, b) ==
    LET a1 == a[1] \div 4096
        a0 == a[1] % 4096
        b1 == b[1] \div 4096
        b0 == b[1] % 4096
        mid == a1 * b0 + a0 * b1
        lowFull == (mid % 4096) * 4096 + a0 * b0
        lo == lowFull % 16777216
        hi == a1 * b1 + (mid \div 4096) + (lowFull \div 16777216)
        s  == BitLen(hi)
        q  == hi * Pow2(24 - s) + (lo \div Pow2(s))
        rem  == lo % Pow2(s)
        half == Pow2(s - 1)
        up   == rem > half \/ (rem = half /\ q % 2 = 1)
        q1   == IF up THEN q + 1 ELSE q
    IN  IF hi = 0 THEN <<lo, a[2] + b[2]>>
        ELSE IF q1 = 16777216 THEN <<8388608, a[2] + b[2] + s + 1>>
        ELSE <<q1, a[2] + b[2] + s>>

\* long division, one quotient bit per step, until 25 bits are known
RECURSIVE DivBits(_, _, _, _)
DivBits(q, r, d, k) ==
    IF q >= 16777216 THEN <<q, r, k>>
    ELSE IF 2 * r >= d THEN DivBits(2 * q + 1, 2 * r - d, d, k + 1)
    ELSE DivBits(2 * q, 2 * r, d, k + 1)

F32Div(a, b) ==
    LET qr   == DivBits(a[1] \div b[1], a[1] % b[1], b[1], 0)
        q    == qr[1] \div 2
        up   == qr[1] % 2 = 1 /\ (qr[2] # 0 \/ q % 2 = 1)
        q1   == IF up THEN q + 1 ELSE q
        e    == a[2] - b[2] + 1 - qr[3]
    IN  IF a[1] = 0 THEN <<0, 0>>
        ELSE IF q1 = 16777216 THEN <<8388608, e + 1>>
        ELSE <<q1, e>>

\* f32::round followed by `as usize` / `as i32` (value >= 0)
F32Round(a) ==
    IF a[2] >= 0 THEN a[1] * Pow2(a[2])
    ELSE IF -a[2] > 30 THEN 0
    ELSE LET q   == a[1] \div Pow2(-a[2])
             rem == a[1] % Pow2(-a[2])
         IN  IF 2 * rem >= Pow2(-a[2]) THEN q + 1 ELSE q

(***************************************************************************)
(* Frame (crate root, not among the sources): a stereo pair of rationals.  *)
(***************************************************************************)
FrameDefault == <<R(0), R(0)>>

FrameAdd(a, b) == <<RAdd(a[1], b[1]), RAdd(a[2], b[2])>>

FrameScale(a, k) == <<RMul(a[1], k), RMul(a[2], k)>>

FrameAvg(a) == RMul(RAdd(a[1], a[2]), <<1, 2>>)

FrameInterpolate(a, b, t) ==
    FrameAdd(FrameScale(a, RSub(R(1), t)), FrameScale(b, t))

\* Option<T>: None is the empty tuple, Some(x) is <<x>>
None == <<>>

Some(x) == <<x>>

\* f32::EPSILON = 2^-23
F32Epsilon == <<1, 8388608>>

VARIABLES
    clip,             \* AudioClip: [frames, sample_rate]
    settings,         \* MusicParams of the renderer (amplifier is mutable)
    scenario,         \* what the environment may do: commands, rates, buffers
    paused, index, last_sample_rate, low_pass, last_output,
    fade_time, fade_current,          \* MusicRenderer fields
    state,            \* AtomicState shared with the handle: [position, paused]
    ring,             \* occupied slots of the command ring buffer, oldest first
    iter,             \* items the running pop_iter has still to yield
    taken,            \* items the running pop_iter has yielded
    pc,               \* audio thread: "idle", "prepare", "render", "store"
    channels,         \* channel count of the output stream (1 or 2)
    sample_rate, data, cursor, position, delta,  \* callback locals
    result,           \* what the last Music method call returned
    nCalls,           \* history: Music method calls made
    pushed, applied,  \* history: commands accepted by push / applied by prepare
    dataIn,           \* history: the buffer as handed to the current callback
    nCallbacks,       \* history: callbacks entered
    cb,               \* history: renderer state when prepare returned
    fadeObs,          \* history: last fade command and frames emitted since
    lastFrame,        \* history: the frame the last emitting frame() call made
    nEmitted,         \* history: frames emitted so far
    ratesSeen,        \* history: sample rates of the callbacks so far
    rescaleObs,       \* history: renderer state before the last rescale
    contrib,          \* history: what the running render call added per slot
    endObs,           \* history: where the clip's end stopped the voice
    seekObs,          \* history: the last SeekTo applied and what it set
    mix,              \* history: the buffer one mixing round started from
    music_handle,     \* the owner still holds the Music handle
    sfx,              \* the Sfx voice: ring, handle, render locals, history
    backend,          \* CpalBackend: the broken flag and its readers
    dec,              \* a run of AudioClip::decode
    probe             \* a call of AudioClip::sample

rvars == <<paused, index, last_sample_rate, low_pass, last_output,
           fade_time, fade_current, settings>>

avars == <<pc, sample_rate, channels, data, cursor, position, delta>>

hvars == <<dataIn, nCallbacks, cb, fadeObs, lastFrame, nEmitted, ratesSeen,
           rescaleObs, contrib, endObs, seekObs, mix>>

\* what no step of the music voice's own methods changes
xvars == <<music_handle, sfx, backend, dec, probe>>

vars == <<clip, scenario, rvars, state, ring, iter, taken, avars, result,
          nCalls, pushed, applied, hvars, xvars>>

(***************************************************************************)
(* AudioClip                                                               *)
(***************************************************************************)
frame_count == Len(clip.frames)

\* ClipInner.length = frame_count as f32 / sample_rate as f32
ClipLength == RNorm(frame_count, clip.sample_rate)

\* (faulty variant: a frame is returned as it is only when t is 0)
AudioClip_sampleExactOnly(pos) ==
    LET p            == RMul(pos, R(clip.sample_rate))
        actual_index == AsUsize(p)
        t            == RSub(p, R(actual_index))
        frame        == clip.frames[actual_index + 1]
    IN  IF actual_index >= frame_count THEN None
        ELSE IF t = R(0) THEN Some(frame)
        ELSE IF actual_index + 1 >= frame_count THEN Some(frame)
        ELSE Some(FrameInterpolate(frame, clip.frames[actual_index + 2], t))

AudioClip_sample(pos) ==
    LET p            == RMul(pos, R(clip.sample_rate))
        actual_index == AsUsize(p)
        t            == RSub(p, R(actual_index))
        frame        == clip.frames[actual_index + 1]
    IN  IF actual_index >= frame_count THEN None
        ELSE IF RLt(t, F32Epsilon) THEN Some(frame)
        ELSE IF actual_index + 1 >= frame_count THEN Some(frame)
        ELSE Some(FrameInterpolate(frame, clip.frames[actual_index + 2], t))

(***************************************************************************)
(* Bounds of the exploration                                               *)
(***************************************************************************)
MaxCalls == 3

MaxCallbacks == 2

(***************************************************************************)
(* MusicCommand                                                            *)
(***************************************************************************)
Cmd(op, arg) == [op |-> op, arg |-> arg]

Pause == Cmd("Pause", R(0))

Resume == Cmd("Resume", R(0))

SetAmplifier(amp) == Cmd("SetAmplifier", amp)

SeekTo(p) == Cmd("SeekTo", p)

SetLowPass(c) == Cmd("SetLowPass", c)

FadeIn(t) == Cmd("FadeIn", t)

FadeOut(t) == Cmd("FadeOut", t)

(***************************************************************************)
(* Music handle (control thread).  Every mutating method is                *)
(* self.prod.push(command).map_err(buffer_is_full): the producer appends   *)
(* when a slot is free and otherwise hands the command back.               *)
(***************************************************************************)
\* (faulty variant: one slot more than the ring was created with)
RingIsFullOffByOne == Len(ring) > settings.command_buffer_size

RingIsFull == Len(ring) >= settings.command_buffer_size

RingPush(cmd) == Append(ring, cmd)

MusicCall(cmd) ==
    /\ nCalls < MaxCalls
    /\ nCalls' = nCalls + 1
    /\ IF RingIsFull
       THEN /\ result' = "BufferFull"
            /\ UNCHANGED <<ring, pushed>>
       ELSE /\ result' = "Ok"
            /\ ring' = RingPush(cmd)
            /\ pushed' = Append(pushed, cmd)
    /\ UNCHANGED <<clip, scenario, rvars, state, iter, taken, avars, applied,
                   hvars, xvars>>

(***************************************************************************)
(* MusicRenderer::prepare (audio thread)                                   *)
(***************************************************************************)
\* if let Some(state) = self.state.upgrade() { state.paused.store(v) }
StorePaused(v) == IF state.strong THEN [state EXCEPT !.paused = v] ELSE state

\* if let Some(state) = self.state.upgrade() { state.position.store(v) }
StorePositionBits(v) ==
    IF state.strong THEN [state EXCEPT !.position = v] ELSE state

\* (x as f32 * (sample_rate as f32 / last_sample_rate as f32)).round()
Rescale(x, from, to) ==
    F32Round(F32Mul(F32OfNat(x), F32Div(F32OfNat(to), F32OfNat(from))))

\* (faulty variant: the sign is lost in the rescale)
RescaleI32Magnitude(x, from, to) ==
    IF x < 0 THEN Rescale(-x, from, to) ELSE Rescale(x, from, to)

RescaleI32(x, from, to) ==
    IF x < 0 THEN -Rescale(-x, from, to) ELSE Rescale(x, from, to)

\* (faulty variant: the sample rate is left out of the sought index)
SeekIndexInSeconds(p, sr) ==
    IF p[1] < 0 THEN 0
    ELSE F32Round(F32Div(F32OfRat(p), F32OfRat(settings.playback_rate)))

\* (position * sample_rate as f32 / playback_rate).round() as usize
SeekIndex(p, sr) ==
    IF p[1] < 0 THEN 0
    ELSE F32Round(F32Div(F32Mul(F32OfRat(p), F32OfNat(sr)),
                         F32OfRat(settings.playback_rate)))

\* (time * sample_rate as f32).round() as i32
FadeSamples(time, sr) ==
    IF time[1] < 0 THEN -F32Round(F32Mul(F32OfRat(RNeg(time)), F32OfNat(sr)))
    ELSE F32Round(F32Mul(F32OfRat(time), F32OfNat(sr)))

\* (faulty variant: a paused voice does not drain)
PopIterLenUnlessPaused == IF paused THEN 0 ELSE Len(ring)

\* the slots cons.pop_iter() will yield: those occupied when it is created
PopIterLen == Len(ring)

\* (faulty variant: the iterator yields the newest slot first)
PopIterNextNewestFirst == ring[iter]

\* the command the iterator yields next
PopIterNext == ring[taken + 1]

\* dropping the iterator releases the slots it yielded
PopIterDrop == SubSeq(ring, taken + 1, Len(ring))

\* the buffer a render call is handed: `fresh` when it opens a mixing round,
\* otherwise it holds what the voices rendered before in the round left
MixEnter(voice, buf, fresh) ==
    IF fresh
    THEN [in |-> buf, sum |-> [i \in 1..Len(buf) |-> R(0)],
          voices |-> {voice}, last |-> voice]
    ELSE [in |-> mix.in,
          sum |-> [i \in 1..Len(buf) |-> RAdd(mix.sum[i], contrib[i])],
          voices |-> mix.voices \cup {voice}, last |-> voice]

\* render_mono / render_stereo enter prepare: the rescale, then pop_iter()
CallbackEnter(sr, buf, fresh) ==
    /\ pc = "idle"
    /\ nCallbacks < MaxCallbacks
    /\ nCallbacks' = nCallbacks + 1
    /\ pc' = "prepare"
    /\ sample_rate' = sr
    /\ data' = buf
    /\ dataIn' = buf
    /\ contrib' = [i \in 1..Len(buf) |-> R(0)]
    /\ mix' = MixEnter("music", buf, fresh)
    /\ cursor' = 0
    /\ IF last_sample_rate # sr
       THEN /\ index' = Rescale(index, last_sample_rate, sr)
            /\ last_sample_rate' = sr
            /\ fade_time' = RescaleI32(fade_time, last_sample_rate, sr)
            /\ fade_current' = RescaleI32(fade_current, last_sample_rate, sr)
            /\ rescaleObs' = [n |-> nCallbacks + 1, index |-> index,
                              from |-> last_sample_rate, to |-> sr,
                              fade_time |-> fade_time,
                              fade_current |-> fade_current,
                              applied |-> Len(applied)]
            /\ fadeObs' = [fadeObs EXCEPT !.clean = FALSE]
       ELSE UNCHANGED <<index, last_sample_rate, fade_time, fade_current,
                        rescaleObs, fadeObs>>
    /\ iter' = PopIterLen
    /\ taken' = 0
    /\ ratesSeen' = ratesSeen \cup {sr}
    /\ cb' = [cb EXCEPT !.pushed = Len(pushed), !.position = state.position]
    /\ UNCHANGED <<clip, scenario, paused, low_pass, last_output, settings,
                   state, ring, channels, position, delta, result, nCalls,
                   pushed, applied, lastFrame, nEmitted, endObs, seekObs,
                   xvars>>

\* a callback on a buffer of `len` slots that all hold `fill`
CallbackStart(sr, len, fill) == CallbackEnter(sr, [i \in 1..len |-> fill], TRUE)

\* one iteration of `for cmd in self.cons.pop_iter()`
PopCommand ==
    /\ pc = "prepare"
    /\ iter > 0
    /\ LET cmd == PopIterNext
       IN  /\ applied' = Append(applied, cmd)
           /\ paused' = CASE cmd.op = "Pause" -> TRUE
                          [] cmd.op = "Resume" -> FALSE
                          [] cmd.op = "FadeIn" -> FALSE
                          [] OTHER -> paused
           /\ state' = CASE cmd.op = "Pause" -> StorePaused(TRUE)
                         [] cmd.op = "Resume" -> StorePaused(FALSE)
                         [] cmd.op = "FadeIn" /\ paused -> StorePaused(FALSE)
                         [] OTHER -> state
           /\ settings' = IF cmd.op = "SetAmplifier"
                          THEN [settings EXCEPT !.amplifier = cmd.arg]
                          ELSE settings
           /\ index' = IF cmd.op = "SeekTo"
                       THEN SeekIndex(cmd.arg, sample_rate)
                       ELSE index
           /\ low_pass' = IF cmd.op = "SetLowPass" THEN cmd.arg ELSE low_pass
           /\ fade_time' = CASE cmd.op = "FadeIn" ->
                                  FadeSamples(cmd.arg, sample_rate)
                             [] cmd.op = "FadeOut" ->
                                  FadeSamples(RNeg(cmd.arg), sample_rate)
                             [] OTHER -> fade_time
           /\ fade_current' = IF cmd.op \in {"FadeIn", "FadeOut"}
                              THEN 0 ELSE fade_current
           /\ fadeObs' = IF cmd.op \in {"FadeIn", "FadeOut"}
                         THEN [mode |-> cmd.op, N |-> Abs(fade_time'), k |-> 0,
                               clean |-> TRUE]
                         ELSE [fadeObs EXCEPT !.clean = FALSE]
           /\ seekObs' = IF cmd.op = "SeekTo"
                         THEN [sought |-> TRUE, n |-> nCallbacks,
                               applied |-> Len(applied) + 1, arg |-> cmd.arg,
                               index |-> index', rate |-> sample_rate,
                               emitted |-> nEmitted,
                               rescaled |-> rescaleObs.n = nCallbacks]
                         ELSE seekObs
    /\ iter' = iter - 1
    /\ taken' = taken + 1
    /\ UNCHANGED <<clip, scenario, last_sample_rate, last_output, ring, avars,
                   result, nCalls, pushed, dataIn, nCallbacks, cb, lastFrame,
                   nEmitted, ratesSeen, rescaleObs, contrib, endObs, mix,
                   xvars>>

\* (faulty variant: the render loop runs whatever the pause flag)
VoicePlaysAlways == TRUE

\* `if !self.paused` of render_mono / render_stereo
VoicePlays == ~paused

\* the iterator is exhausted and dropped; prepare returns; `if !self.paused`
PrepareDone ==
    /\ pc = "prepare"
    /\ iter = 0
    /\ ring' = PopIterDrop
    /\ taken' = 0
    /\ cb' = [cb EXCEPT !.paused = paused, !.index = index,
                        !.fade_current = fade_current]
    /\ IF ~VoicePlays
       THEN /\ pc' = "idle"
            /\ UNCHANGED <<delta, position>>
       ELSE /\ pc' = "render"
            /\ delta' = RMul(RInv(R(sample_rate)), settings.playback_rate)
            /\ position' = RMul(R(index), delta')
    /\ UNCHANGED <<clip, scenario, rvars, state, iter, sample_rate, channels,
                   data, cursor, result, nCalls, pushed, applied, dataIn,
                   nCallbacks, fadeObs, lastFrame, nEmitted, ratesSeen,
                   rescaleObs, contrib, endObs, seekObs, mix, xvars>>

(***************************************************************************)
(* MusicRenderer::frame (the definition at lines 154-202, which is the one *)
(* render_mono and render_stereo call with (position, delta)).             *)
(* The result carries the new values of the fields frame() writes:         *)
(*   out      the returned Option<Frame>                                   *)
(*   raw, at  the frame before `* amp` and the clip position it was        *)
(*            sampled at (history only)                                    *)
(*   store    whether state.paused.store(true) ran                         *)
(*   counted  whether the call consumed a clip position (history only)     *)
(***************************************************************************)
\* the `if let Some(mut frame)` branch up to `self.index += 1`
FrameOverlay(pos, frame) ==
    LET p2 == RSub(RAdd(pos, settings.loop_mix_time), ClipLength)
    IN  IF RLe(R(0), settings.loop_mix_time) /\ RLe(R(0), p2)
           /\ AudioClip_sample(p2) # None
        THEN FrameAdd(frame, AudioClip_sample(p2)[1])
        ELSE frame

FrameInClip(pos, frame) ==
    LET raw == FrameOverlay(pos, frame)
        amp == settings.amplifier
        base == [raw |-> raw, at |-> pos, index |-> index + 1,
                 paused |-> paused, store |-> FALSE, counted |-> TRUE,
                 loop |-> FALSE]
    IN  IF fade_time = 0
        THEN base @@ [out |-> Some(FrameScale(raw, amp)),
                      fade_time |-> fade_time, fade_current |-> fade_current]
        ELSE IF fade_time > 0
        THEN IF fade_current + 1 >= fade_time
             THEN base @@ [out |-> Some(FrameScale(raw, amp)),
                           fade_time |-> 0, fade_current |-> fade_current + 1]
             ELSE base @@ [out |-> Some(FrameScale(raw,
                               RMul(amp, RNorm(fade_current + 1, fade_time)))),
                           fade_time |-> fade_time,
                           fade_current |-> fade_current + 1]
        ELSE IF fade_current - 1 <= fade_time
             THEN [base EXCEPT !.paused = TRUE, !.store = TRUE]
                  @@ [out |-> None, fade_time |-> 0,
                      fade_current |-> fade_current - 1]
             ELSE base @@ [out |-> Some(FrameScale(raw,
                               RMul(amp, RSub(R(1),
                                   RNorm(fade_current - 1, fade_time))))),
                           fade_time |-> fade_time,
                           fade_current |-> fade_current - 1]

\* the `else if s.loop_mix_time >= 0.` branch: the loop rewind
FrameRewind(pos, dlt) ==
    LET p2  == RAdd(RSub(pos, ClipLength), settings.loop_mix_time)
        smp == AudioClip_sample(p2)
        raw == IF smp # None THEN smp[1] ELSE FrameDefault
    IN  [out |-> Some(FrameScale(raw, settings.amplifier)),
         raw |-> raw, at |-> p2,
         index |-> AsUsize(R(RRound(RDiv(p2, dlt)))),
         paused |-> paused, store |-> FALSE, counted |-> TRUE, loop |-> TRUE,
         fade_time |-> fade_time, fade_current |-> fade_current]

\* (faulty variant: the voice rewinds to the start when the clip ends)
FrameEndRewinds(pos) ==
    [out |-> None, raw |-> FrameDefault, at |-> pos, index |-> 0,
     paused |-> TRUE, store |-> FALSE, counted |-> FALSE, loop |-> FALSE,
     fade_time |-> fade_time, fade_current |-> fade_current]

\* (faulty variant: the end of the clip does not pause the voice)
FrameEndKeepsPlaying(pos) ==
    [out |-> None, raw |-> FrameDefault, at |-> pos, index |-> index,
     paused |-> paused, store |-> FALSE, counted |-> FALSE, loop |-> FALSE,
     fade_time |-> fade_time, fade_current |-> fade_current]

\* the final `else`: the clip ended and the voice does not loop
FrameEnd(pos) ==
    [out |-> None, raw |-> FrameDefault, at |-> pos, index |-> index,
     paused |-> TRUE, store |-> FALSE, counted |-> FALSE, loop |-> FALSE,
     fade_time |-> fade_time, fade_current |-> fade_current]

MusicRenderer_frame(pos, dlt) ==
    IF AudioClip_sample(pos) # None
    THEN FrameInClip(pos, AudioClip_sample(pos)[1])
    ELSE IF RLe(R(0), settings.loop_mix_time)
    THEN FrameRewind(pos, dlt)
    ELSE FrameEnd(pos)

\* update_and_get: the one-pole low-pass
UpdateAndGet(frame) ==
    FrameAdd(FrameScale(last_output, low_pass),
             FrameScale(frame, RSub(R(1), low_pass)))

\* (faulty variant: `=` where the code has `+=`)
AccumulateOverwrite(buf, i, f) ==
    IF channels = 1
    THEN [buf EXCEPT ![i + 1] = FrameAvg(f)]
    ELSE [buf EXCEPT ![2 * i + 1] = f[1], ![2 * i + 2] = f[2]]

\* frames a buffer holds: data.iter_mut() / data.chunks_exact_mut(2)
BufferFrames == IF channels = 1 THEN Len(data) ELSE Len(data) \div 2

\* `*sample += frame.avg()` / `sample[0] += frame.0; sample[1] += frame.1`
Accumulate(buf, i, f) ==
    IF channels = 1
    THEN [buf EXCEPT ![i + 1] = RAdd(@, FrameAvg(f))]
    ELSE [buf EXCEPT ![2 * i + 1] = RAdd(@, f[1]),
                     ![2 * i + 2] = RAdd(@, f[2])]

\* the values one frame adds to the slots of buffer frame i
SlotValues(buf, i, f) ==
    IF channels = 1
    THEN [buf EXCEPT ![i + 1] = FrameAvg(f)]
    ELSE [buf EXCEPT ![2 * i + 1] = f[1], ![2 * i + 2] = f[2]]

\* one iteration of the render loop of render_mono / render_stereo
RenderFrame ==
    /\ pc = "render"
    /\ cursor < BufferFrames
    /\ \E f \in {MusicRenderer_frame(position, delta)} :
           /\ index' = f.index
           /\ fade_time' = f.fade_time
           /\ fade_current' = f.fade_current
           /\ paused' = f.paused
           /\ state' = IF f.store THEN StorePaused(TRUE) ELSE state
           /\ IF f.out # None
              THEN /\ last_output' = UpdateAndGet(f.out[1])
                   /\ data' = Accumulate(data, cursor, last_output')
                   /\ contrib' = SlotValues(contrib, cursor, last_output')
                   /\ position' = RAdd(position, delta)
                   /\ cursor' = cursor + 1
                   /\ pc' = "render"
              ELSE /\ pc' = "store"
                   /\ UNCHANGED <<last_output, data, position, cursor,
                                  contrib>>
           /\ endObs' = IF f.out = None /\ ~f.store
                        THEN [ended |-> TRUE, n |-> nCallbacks,
                              applied |-> Len(applied), index |-> f.index,
                              cursor |-> cursor, rate |-> sample_rate]
                        ELSE endObs
           /\ nEmitted' = IF f.out # None THEN nEmitted + 1 ELSE nEmitted
           /\ IF f.counted
              THEN /\ lastFrame' = [at |-> f.at, raw |-> f.raw, out |-> f.out,
                                    loop |-> f.loop]
                   /\ fadeObs' = [fadeObs EXCEPT !.k = @ + 1]
              ELSE UNCHANGED <<lastFrame, fadeObs>>
    /\ UNCHANGED <<clip, scenario, last_sample_rate, low_pass, settings, ring,
                   iter, taken, sample_rate, channels, delta, result, nCalls,
                   pushed, applied, dataIn, nCallbacks, cb, ratesSeen,
                   rescaleObs, seekObs, mix, xvars>>

\* after the loop: state.position.store(self.position(delta as f32).to_bits())
StorePosition ==
    /\ pc \in {"store", "render"}
    /\ pc = "render" => cursor >= BufferFrames
    /\ state' = StorePositionBits(RMul(R(index), delta))
    /\ pc' = "idle"
    /\ UNCHANGED <<clip, scenario, rvars, ring, iter, taken, sample_rate,
                   channels, data, cursor, position, delta, result, nCalls,
                   pushed, applied, hvars, xvars>>

(***************************************************************************)
(* Music::new and the specifications.  A scenario fixes the clip, the      *)
(* MusicParams and what the environment may do: the commands the control   *)
(* thread may send, and the sample rates, channel counts, buffer lengths   *)
(* and prior buffer contents of the callbacks.                             *)
(***************************************************************************)
MusicParams(loop_mix_time, amplifier, playback_rate, command_buffer_size) ==
    [loop_mix_time |-> loop_mix_time, amplifier |-> amplifier,
     playback_rate |-> playback_rate,
     command_buffer_size |-> command_buffer_size]

Mono(xs) == [i \in 1..Len(xs) |-> <<R(xs[i]), R(xs[i])>>]

MusicNew(cl, params, ch, sc) ==
    /\ clip = cl
    /\ settings = params
    /\ scenario = sc
    /\ paused = TRUE
    /\ index = 0
    /\ last_sample_rate = 1
    /\ low_pass = R(0)
    /\ last_output = FrameDefault
    /\ fade_time = 0
    /\ fade_current = 0
    /\ state = [position |-> R(0), paused |-> TRUE, strong |-> TRUE]
    /\ ring = <<>>
    /\ iter = 0
    /\ taken = 0
    /\ pc = "idle"
    /\ sample_rate = 1
    /\ channels = ch
    /\ data = <<>>
    /\ cursor = 0
    /\ position = R(0)
    /\ delta = R(0)
    /\ result = "none"
    /\ nCalls = 0
    /\ pushed = <<>>
    /\ applied = <<>>
    /\ dataIn = <<>>
    /\ nCallbacks = 0
    /\ cb = [pushed |-> 0, paused |-> TRUE, index |-> 0, fade_current |-> 0,
             position |-> R(0)]
    /\ fadeObs = [mode |-> "none", N |-> 0, k |-> 0, clean |-> FALSE]
    /\ lastFrame = [at |-> R(0), raw |-> FrameDefault, out |-> None,
                    loop |-> FALSE]
    /\ nEmitted = 0
    /\ ratesSeen = {}
    /\ rescaleObs = [n |-> 0, index |-> 0, from |-> 1, to |-> 1,
                     fade_time |-> 0, fade_current |-> 0, applied |-> 0]
    /\ contrib = <<>>
    /\ endObs = [ended |-> FALSE, n |-> 0, applied |-> 0, index |-> 0,
                 cursor |-> 0, rate |-> 1]
    /\ seekObs = [sought |-> FALSE, n |-> 0, applied |-> 0, arg |-> R(0),
                  index |-> 0, rate |-> 1, emitted |-> 0, rescaled |-> FALSE]
    /\ mix = [in |-> <<>>, sum |-> <<>>, voices |-> {}, last |-> "none"]
    /\ music_handle = TRUE

(***************************************************************************)
(* The other components, as they are created.                              *)
(***************************************************************************)
\* Sfx::new(clip, Some(capacity)): an empty ring, one strong reference held
\* by the handle.  History only: calls, plays, played (the frames each play
\* has contributed), removed (the plays advance() dropped), atDrop (the
\* entries queued when the handle was dropped), reach (the most frames an
\* entry rendered in the current callback), ended (the plays that ran past
\* the end of the clip in the current or last callback)
SfxNew(capacity) ==
    [ring |-> <<>>, capacity |-> capacity, handle |-> TRUE, arc |-> 1,
     iter |-> 0, k |-> 0, pop_count |-> 0, result |-> "none", arg |-> R(0),
     calls |-> 0, plays |-> 0, played |-> <<>>, removed |-> {},
     atDrop |-> 0, reach |-> 0, ended |-> {}]

\* buffer_size.unwrap_or(4096)
SfxCapacity(buffer_size) ==
    IF buffer_size = None THEN 4096 ELSE buffer_size[1]

\* no sfx voice was created
SfxAbsent == [SfxNew(0) EXCEPT !.handle = FALSE, !.arc = 0]

\* CpalBackend::new: broken is Arc::default(), that is false
\* (stream, buf, at, dpc, ncb: the output stream start() builds, the device
\* buffer of the data callback in progress with a mark on every sample the
\* mixer has processed, the callback's cursor and position, the callbacks
\* so far)
CpalBackendNew ==
    [broken |-> FALSE, returned |-> "none", errors |-> 0, calls |-> 0,
     raised |-> 0, reported |-> 0,
     stream |-> [channels |-> 1, features |-> {}], buf |-> <<>>, at |-> 0,
     dpc |-> "idle", ncb |-> 0]

\* no decode is running
DecodeIdle ==
    [stream |-> <<>>, end |-> "IoError: UnexpectedEof",
     chunk_size |-> 4096, read |-> 0, packets |-> <<>>, frames |-> <<>>,
     pc |-> "idle", result |-> "none"]

\* AudioClip::sample was not called
ProbeIdle == [called |-> FALSE, pos |-> R(0), out |-> None, reads |-> {}]

\* one music voice and nothing else
Standalone ==
    /\ sfx = SfxAbsent
    /\ backend = CpalBackendNew
    /\ dec = DecodeIdle
    /\ probe = ProbeIdle

Next ==
    \/ \E cmd \in scenario.commands : MusicCall(cmd)
    \/ \E sr \in scenario.rates, len \in scenario.lens,
          fill \in scenario.fills : CallbackStart(sr, len, fill)
    \/ PopCommand
    \/ PrepareDone
    \/ RenderFrame
    \/ StorePosition

\* the command channel: every command kind on a two-slot ring, a clip that
\* does not loop, mono or stereo output
Init ==
    /\ Standalone
    /\ \E ch \in {1, 2} :
        MusicNew([frames |-> <<<<R(1), R(1)>>, <<R(2), R(4)>>,
                               <<R(3), R(-3)>>>>,
                  sample_rate |-> 2],
                 MusicParams(R(-1), R(1), R(1), 2), ch,
                 [commands |-> {Pause, Resume, SetAmplifier(<<1, 2>>),
                                SetAmplifier(R(2)), SeekTo(<<1, 2>>),
                                SetLowPass(<<1, 2>>), FadeIn(<<1, 2>>),
                                FadeOut(<<1, 2>>)},
                  rates |-> {2}, lens |-> {2}, fills |-> {R(5)}])

Spec == Init /\ [][Next]_vars

(***************************************************************************)
(* History helpers                                                         *)
(***************************************************************************)
\* commands pushed and not yet yielded to prepare
Pending == SubSeq(ring, taken + 1, Len(ring))

RECURSIVE LastAmplifier(_, _)
LastAmplifier(cmds, init) ==
    IF cmds = <<>> THEN init
    ELSE IF cmds[Len(cmds)].op = "SetAmplifier" THEN cmds[Len(cmds)].arg
    ELSE LastAmplifier(SubSeq(cmds, 1, Len(cmds) - 1), init)

Applied(op) == \E i \in 1..Len(applied) : applied[i].op = op

CallbackReturned == pc = "idle" /\ nCallbacks > 0

(***************************************************************************)
(* C1.  Commands pushed on one Music handle are applied by the renderer in *)
(* submission order, each exactly once: at every moment the commands       *)
(* pushed so far are exactly the commands applied so far followed by the   *)
(* commands still pending, whatever the interleaving of pushes and drains; *)
(* when a callback returns, the amplifier is the one of the last           *)
(* SetAmplifier applied, so SetAmplifier(a1); SetAmplifier(a2) pushed      *)
(* before a callback leave the amplifier at a2.                            *)
(***************************************************************************)
C1_SubmissionOrder ==
    /\ pushed = applied \o Pending
    /\ CallbackReturned =>
         /\ settings.amplifier = LastAmplifier(applied, R(1))
         /\ ( /\ cb.pushed >= 2
              /\ Len(applied) = cb.pushed
              /\ pushed[cb.pushed - 1].op = "SetAmplifier"
              /\ pushed[cb.pushed].op = "SetAmplifier" )
            => settings.amplifier = pushed[cb.pushed].arg

\* SetAmplifier(1/2); SetAmplifier(2) were pushed before a callback, a third
\* command arrived while that callback was draining, and the callback returned
C1_Witness ==
    /\ CallbackReturned
    /\ Len(applied) = 2
    /\ applied[1] = SetAmplifier(<<1, 2>>)
    /\ applied[2] = SetAmplifier(R(2))
    /\ cb.pushed = 2
    /\ Len(pushed) = 3
    /\ Len(ring) = 1
    /\ settings.amplifier = R(2)

(***************************************************************************)
(* C2.  A voice created with command_buffer_size = n never has more than n *)
(* commands pending, and a mutating Music method called while n commands   *)
(* are pending returns buffer-full and changes neither the command queue   *)
(* nor any renderer state.                                                 *)
(***************************************************************************)
C2_BufferFull ==
    /\ [](Len(ring) <= settings.command_buffer_size)
    /\ [][(nCalls' # nCalls /\ Len(ring) = settings.command_buffer_size)
            => /\ result' = "BufferFull"
               /\ ring' = ring
               /\ pushed' = pushed
               /\ rvars' = rvars
               /\ state' = state]_vars

\* a call was refused on a full ring
C2_Witness ==
    /\ result = "BufferFull"
    /\ Len(ring) = settings.command_buffer_size
    /\ Len(pushed) = settings.command_buffer_size
    /\ nCalls = Len(pushed) + 1

(***************************************************************************)
(* C3.  Every command whose push completed before a callback began has     *)
(* been applied once that callback is past prepare (rendering, storing the *)
(* position, or returned), also when the voice is paused; and while        *)
(* prepare is still draining no sample has been produced.                  *)
(***************************************************************************)
C3_DrainedAtStart ==
    /\ (pc \in {"render", "store"} \/ CallbackReturned)
         => Len(applied) >= cb.pushed
    /\ pc = "prepare" => (data = dataIn /\ cursor = 0)

\* a callback that found the voice paused still applied two commands
C3_Witness ==
    /\ CallbackReturned
    /\ cb.paused
    /\ cb.pushed = 2
    /\ Len(applied) = 2
    /\ nCallbacks = 1
    /\ applied[1].op = "SetAmplifier"
    /\ applied[2].op = "SetLowPass"
    /\ low_pass = <<1, 2>>

(***************************************************************************)
(* C4.  A callback that finds the voice paused once its commands are       *)
(* drained never enters the render loop: when it returns, every slot of    *)
(* the buffer holds what it held on entry, index and the fade cursor are   *)
(* what prepare left, and the position atomic is what it was on entry.     *)
(***************************************************************************)
C4_PausedWritesNothing ==
    /\ pc \in {"render", "store"} => ~cb.paused
    /\ (CallbackReturned /\ cb.paused) =>
         /\ data = dataIn
         /\ index = cb.index
         /\ fade_current = cb.fade_current
         /\ state.position = cb.position

\* a voice that played, was paused by a command, and was called again
C4_Witness ==
    /\ CallbackReturned
    /\ cb.paused
    /\ nEmitted > 0
    /\ Applied("Pause")
    /\ Len(data) = 2
    /\ data = dataIn
    /\ state.position # R(0)

\* a freshly created voice that received no command
C4_FreshVoice ==
    /\ CallbackReturned
    /\ applied = <<>>
    /\ pushed = <<>>
    /\ Len(data) = 2
    /\ data = dataIn

(***************************************************************************)
(* C10.  For a voice that does not loop, once Resume has been applied and  *)
(* as long as no SeekTo has been applied and every callback ran at the     *)
(* same sample rate, no step lowers the position atomic, so the values     *)
(* Music::position() returns never decrease, wherever its reads fall       *)
(* between and inside the callbacks.                                       *)
(***************************************************************************)
Music_position == state.position

C10_PositionMonotone ==
    [][( /\ RLt(settings.loop_mix_time, R(0))
         /\ Applied("Resume")
         /\ ~Applied("SeekTo")'
         /\ Cardinality(ratesSeen') <= 1 )
       => RLe(Music_position, Music_position')]_vars

\* two callbacks stored a position, the second after the clip had ended
C10_Witness ==
    /\ CallbackReturned
    /\ nCallbacks = 2
    /\ Applied("Resume")
    /\ ~Applied("SeekTo")
    /\ RLt(settings.loop_mix_time, R(0))
    /\ nEmitted = 3
    /\ paused
    /\ cb.position = R(1)
    /\ Music_position = <<3, 2>>

(***************************************************************************)
(* Fades.  SpecFade: FadeIn(1.0) / FadeOut(1.0) at sample rate 4 (N = 4)   *)
(* on a two-frame clip that loops without crossfade, or on the eight-frame *)
(* all-ones clip that does not loop; four-frame mono buffers.              *)
(***************************************************************************)
InitFade ==
    /\ Standalone
    /\ \E voice \in {
         [clip |-> [frames |-> Mono(<<1, 2>>), sample_rate |-> 4],
          loop_mix_time |-> R(0)],
         [clip |-> [frames |-> Mono(<<1, 1, 1, 1, 1, 1, 1, 1>>),
                    sample_rate |-> 4],
          loop_mix_time |-> R(-1)]} :
        MusicNew(voice.clip, MusicParams(voice.loop_mix_time, R(1), R(1), 2),
                 1,
                 [commands |-> {Resume, FadeIn(R(1)), FadeOut(R(1))},
                  rates |-> {4}, lens |-> {4}, fills |-> {R(0)}])

SpecFade == InitFade /\ [][Next]_vars

\* the fade multiplier the k-th frame after a fade command should carry
FadeInMultiplier(k, n) == IF k < n THEN RNorm(k, n) ELSE R(1)

FadeOutMultiplier(k, n) == RSub(R(1), RNorm(k, n))

\* a fade command was applied, and since then neither another command nor
\* a sample-rate change, and at least one frame was produced
FadeRunning(mode) ==
    /\ fadeObs.mode = mode
    /\ fadeObs.clean
    /\ fadeObs.N >= 1
    /\ fadeObs.k >= 1

(***************************************************************************)
(* C5.  FadeIn(t) with N = round(t * sample_rate) >= 1 unpauses the voice  *)
(* (local flag and shared atomic), and as long as no other command and no  *)
(* sample-rate change follows, the k-th frame produced after it is the     *)
(* unfaded frame times amplifier * k/N for k < N and times amplifier for   *)
(* k >= N.                                                                 *)
(***************************************************************************)
C5_FadeInEnvelope ==
    /\ (pc = "prepare" /\ taken > 0 /\ ring[taken].op = "FadeIn")
         => (~paused /\ ~state.paused)
    /\ FadeRunning("FadeIn")
         => lastFrame.out =
              Some(FrameScale(lastFrame.raw,
                     RMul(settings.amplifier,
                          FadeInMultiplier(fadeObs.k, fadeObs.N))))

(***************************************************************************)
(* C6.  After FadeOut(t) with N = round(t * sample_rate) >= 1, as long as  *)
(* no other command and no sample-rate change follows, the k-th frame      *)
(* produced is the unfaded frame times amplifier * (1 - k/N) for k < N;    *)
(* the N-th frame writes nothing and leaves paused true in the renderer    *)
(* and in the shared atomic, and no further frame is produced.             *)
(***************************************************************************)
C6_FadeOutEnvelope ==
    FadeRunning("FadeOut")
      => IF fadeObs.k < fadeObs.N
         THEN lastFrame.out =
                Some(FrameScale(lastFrame.raw,
                       RMul(settings.amplifier,
                            FadeOutMultiplier(fadeObs.k, fadeObs.N))))
         ELSE /\ fadeObs.k = fadeObs.N
              /\ lastFrame.out = None
              /\ paused
              /\ state.paused

(***************************************************************************)
(* Loops.  SpecLoop: the clip 1, 2, 3, 4 at rate 1 played at output rate 1 *)
(* with loop_mix_time 0, 1 or 2, Resume the only command, stereo buffers   *)
(* of one or seven frames.                                                 *)
(***************************************************************************)
InitLoop ==
    /\ Standalone
    /\ \E m \in {0, 1, 2} :
        MusicNew([frames |-> Mono(<<1, 2, 3, 4>>), sample_rate |-> 1],
                 MusicParams(R(m), R(1), R(1), 2), 2,
                 [commands |-> {Resume}, rates |-> {1}, lens |-> {2, 14},
                  fills |-> {R(0)}])

SpecLoop == InitLoop /\ [][Next]_vars

\* only Resume was ever applied, at the clip's own rate and playback rate 1:
\* no fade, no seek, no pause, no low-pass, no amplifier change
PlainPlayback ==
    /\ Applied("Resume")
    /\ \A i \in 1..Len(applied) : applied[i].op = "Resume"
    /\ settings.playback_rate = R(1)
    /\ ratesSeen = {clip.sample_rate}

(***************************************************************************)
(* C7.  With loop_mix_time = 0, playback rate 1, the output rate equal to  *)
(* the clip's and no fade, a playing voice never pauses, fills every       *)
(* buffer it is given, and the j-th frame it emits (j = 0, 1, ...) is      *)
(* frames[j mod n] * amplifier, however the output is cut into buffers.    *)
(***************************************************************************)
C7_SeamlessLoop ==
    (PlainPlayback /\ settings.loop_mix_time = R(0)) =>
        /\ ~paused
        /\ (CallbackReturned /\ ~cb.paused) => cursor = BufferFrames
        /\ nEmitted >= 1 =>
             lastFrame.out =
               Some(FrameScale(clip.frames[((nEmitted - 1) % frame_count) + 1],
                               settings.amplifier))

\* sample(pos) + sample(pos + m - L) inside the last m seconds, else sample(pos)
CrossfadeExpected(pos) ==
    LET over == RSub(RAdd(pos, settings.loop_mix_time), ClipLength)
    IN  IF RLe(R(0), over)
        THEN FrameAdd(AudioClip_sample(pos)[1], AudioClip_sample(over)[1])
        ELSE AudioClip_sample(pos)[1]

(***************************************************************************)
(* C8.  With loop_mix_time = m > 0 and no fade, every frame the voice      *)
(* emits for a position pos inside the clip is                             *)
(* (sample(pos) + sample(pos + m - L)) * amplifier when pos + m - L >= 0   *)
(* and sample(pos) * amplifier otherwise.                                  *)
(***************************************************************************)
C8_CrossfadeOverlay ==
    ( /\ PlainPlayback
      /\ RLt(R(0), settings.loop_mix_time)
      /\ nEmitted >= 1
      /\ AudioClip_sample(lastFrame.at) # None )
    => lastFrame.out =
         Some(FrameScale(CrossfadeExpected(lastFrame.at), settings.amplifier))

(***************************************************************************)
(* Sample-rate changes.  SpecRate: a one-frame clip at rate 1, a device    *)
(* that runs at 44100 or 48000 Hz, SeekTo(608 s) and FadeIn(1 s).          *)
(***************************************************************************)
InitRate ==
    /\ Standalone
    /\ MusicNew([frames |-> Mono(<<1>>), sample_rate |-> 1],
             MusicParams(R(-1), R(1), R(1), 2), 1,
             [commands |-> {SeekTo(R(608)), FadeIn(R(1))},
              rates |-> {44100, 48000}, lens |-> {1}, fills |-> {R(0)}])

SpecRate == InitRate /\ [][Next]_vars

RAbs(a) == <<Abs(a[1]), a[2]>>

\* |new / to - old / from| * to <= 1
WithinOneSample(new, old, from, to) ==
    RLe(RAbs(RSub(R(new), RMul(R(old), RNorm(to, from)))), R(1))

\* prepare has just rescaled and has not yet applied a command
JustRescaled == pc = "prepare" /\ taken = 0 /\ rescaleObs.n = nCallbacks

(***************************************************************************)
(* C9.  When a callback runs at a sample rate r2 other than the previous   *)
(* r1, prepare moves index by at most one output sample                    *)
(* (|new_index / r2 - old_index / r1| * r2 <= 1) and rescales fade_time    *)
(* and fade_current by the same factor, before it applies any command.     *)
(***************************************************************************)
C9_RescaleKeepsPosition ==
    JustRescaled =>
        /\ WithinOneSample(index, rescaleObs.index,
                           rescaleObs.from, rescaleObs.to)
        /\ WithinOneSample(Abs(fade_time), Abs(rescaleObs.fade_time),
                           rescaleObs.from, rescaleObs.to)
        /\ WithinOneSample(Abs(fade_current), Abs(rescaleObs.fade_current),
                           rescaleObs.from, rescaleObs.to)
        /\ Len(applied) = rescaleObs.applied

(***************************************************************************)
(* C19.  While the Music handle exists, whenever a callback has returned   *)
(* the paused atomic that Music::paused() reads equals the renderer's      *)
(* local paused flag, whichever way the pause state changed: Pause,        *)
(* Resume, FadeIn, the completion of a fade-out, the end of a clip that    *)
(* does not loop.                                                          *)
(***************************************************************************)
Music_paused == state.paused

C19_PausedMirror ==
    (CallbackReturned /\ music_handle) => Music_paused = paused

(***************************************************************************)
(* The end of a clip.  SpecEnd: the clip 1, 2, 3 at rate 2, not looping,   *)
(* rendered into four-slot mono buffers by a device that runs at 2 or      *)
(* 4 Hz; Resume, Pause and SetAmplifier(2) are the commands.               *)
(***************************************************************************)
InitEnd ==
    /\ Standalone
    /\ MusicNew([frames |-> Mono(<<1, 2, 3>>), sample_rate |-> 2],
                MusicParams(R(-1), R(1), R(1), 2), 1,
                [commands |-> {Resume, Pause, SetAmplifier(R(2))},
                 rates |-> {2, 4}, lens |-> {4}, fills |-> {R(5)}])

SpecEnd == InitEnd /\ [][Next]_vars

\* the clip's end stopped the voice and no Resume, FadeIn or SeekTo was
\* applied since
EndQuiet ==
    /\ endObs.ended
    /\ \A i \in (endObs.applied + 1)..Len(applied) :
           applied[i].op \notin {"Resume", "FadeIn", "SeekTo"}

\* the callback in which the end was reached is past its render loop
InEndCallback ==
    endObs.ended /\ nCallbacks = endObs.n /\ pc \in {"store", "idle"}

\* that callback emitted exactly the frames still inside the clip and left
\* the slots after them as they were
EndCallbackEffect ==
    /\ paused
    /\ cursor = endObs.cursor
    /\ \A k \in 0..(cursor - 1) :
           AudioClip_sample(RMul(R(cb.index + k), delta)) # None
    /\ AudioClip_sample(RMul(R(cb.index + cursor), delta)) = None
    /\ \A j \in 1..Len(data) :
           data[j] = IF j <= cursor * channels
                     THEN RAdd(dataIn[j], contrib[j]) ELSE dataIn[j]

\* every callback since the one that reached the end ran at its sample rate
SameRateSinceEnd == rescaleObs.n <= endObs.n

(***************************************************************************)
(* C20 as stated.  For a voice that does not loop, the callback in which   *)
(* the position reaches the end of the clip emits the remaining in-clip    *)
(* frames, leaves the rest of the buffer unchanged and pauses the voice;   *)
(* every later callback writes nothing and leaves index unchanged until a  *)
(* Resume, FadeIn or SeekTo is applied.                                    *)
(***************************************************************************)
C20_EndOfClip_AsStated ==
    /\ InEndCallback => EndCallbackEffect
    /\ EndQuiet =>
         /\ paused
         /\ index = endObs.index
         /\ (CallbackReturned /\ nCallbacks > endObs.n) => data = dataIn

(***************************************************************************)
(* C20 amended.  As stated, except that index is unchanged only as long as *)
(* the later callbacks run at the sample rate of the callback that reached *)
(* the end: a callback at another rate rescales index in prepare, paused   *)
(* or not.                                                                 *)
(***************************************************************************)
C20_EndOfClip ==
    /\ InEndCallback => EndCallbackEffect
    /\ EndQuiet =>
         /\ paused
         /\ SameRateSinceEnd => index = endObs.index
         /\ (CallbackReturned /\ nCallbacks > endObs.n) => data = dataIn

\* the first callback played the clip to its end in a longer buffer, a Pause
\* arrived, and the second callback returned
C20_Witness ==
    /\ CallbackReturned
    /\ nCallbacks = 2
    /\ endObs.ended
    /\ endObs.n = 1
    /\ endObs.cursor = 3
    /\ EndQuiet
    /\ SameRateSinceEnd
    /\ Len(applied) > endObs.applied
    /\ index = 3
    /\ data = dataIn

(***************************************************************************)
(* Sfx and SfxRenderer.  The ring holds (position, params) entries, oldest *)
(* first; an entry's id is history (the number of the play that made it).  *)
(* sfx.played[id] lists the clip frames play number id has contributed.    *)
(***************************************************************************)
MaxPlays == 3

\* the variables of the music voice, which the sfx voice never touches
voice == <<rvars, state, ring, iter, taken, cursor, position, delta, result,
           nCalls, pushed, applied, nCallbacks, cb, fadeObs, lastFrame,
           nEmitted, ratesSeen, rescaleObs, endObs, seekObs, music_handle>>

\* (faulty variant: one slot more than the ring was created with)
SfxIsFullOffByOne == Len(sfx.ring) > sfx.capacity

\* HeapRb::new(capacity): push fails when capacity entries are queued
SfxIsFull == Len(sfx.ring) >= sfx.capacity

\* Sfx::play: self.prod.push((0., params)).map_err(buffer_is_full)
SfxPlay(amp) ==
    /\ sfx.handle
    /\ sfx.calls < MaxPlays
    /\ sfx' = IF SfxIsFull
              THEN [sfx EXCEPT !.calls = @ + 1, !.result = "BufferFull",
                               !.arg = amp]
              ELSE [sfx EXCEPT !.calls = @ + 1, !.result = "Ok",
                               !.arg = amp,
                               !.plays = @ + 1,
                               !.ring = Append(@, [position |-> R(0),
                                                   amplifier |-> amp,
                                                   id |-> sfx.plays + 1]),
                               !.played = Append(@, <<>>)]
    /\ UNCHANGED <<voice, clip, scenario, avars, dataIn, contrib, mix,
                   backend, dec, probe>>

\* the owner drops the Sfx: its Arc<()> loses its only strong reference
SfxDrop ==
    /\ sfx.handle
    /\ sfx' = [sfx EXCEPT !.handle = FALSE, !.arc = @ - 1,
                          !.atDrop = Len(sfx.ring)]
    /\ UNCHANGED <<voice, clip, scenario, avars, dataIn, contrib, mix,
                   backend, dec, probe>>

\* (faulty variant: the queued entries do not keep the voice alive)
SfxAliveWhileHandle == sfx.arc # 0

\* SfxRenderer::alive
SfxRenderer_alive == Len(sfx.ring) # 0 \/ sfx.arc # 0

\* render_mono / render_stereo: delta, pop_count = 0, self.cons.iter_mut()
SfxCallbackEnter(sr, buf, fresh) ==
    /\ pc = "idle"
    /\ pc' = "sfx"
    /\ sample_rate' = sr
    /\ data' = buf
    /\ dataIn' = buf
    /\ contrib' = [i \in 1..Len(buf) |-> R(0)]
    /\ mix' = MixEnter("sfx", buf, fresh)
    /\ sfx' = [sfx EXCEPT !.iter = Len(sfx.ring), !.k = 0, !.pop_count = 0,
                          !.reach = 0, !.ended = {}]
    /\ UNCHANGED <<voice, clip, scenario, channels, backend, dec, probe>>

\* a callback on a buffer of `len` slots that all hold `fill`
SfxCallbackStart(sr, len, fill) ==
    SfxCallbackEnter(sr, [i \in 1..len |-> fill], TRUE)

\* let delta = 1. / sample_rate as f32
SfxDelta == RInv(R(sample_rate))

\* the chunk loop: four frames at a time while all four are inside the clip;
\* yields the frames emitted when it stops
RECURSIVE SfxChunks(_, _, _)
SfxChunks(pos, done, left) ==
    IF left = 0 THEN done
    ELSE IF \A i \in 0..3 :
              AudioClip_sample(RAdd(pos, RMul(SfxDelta, R(i)))) # None
    THEN SfxChunks(RAdd(pos, RMul(SfxDelta, R(4))), done + 4, left - 1)
    ELSE done

\* the loop over the remaining slots, frame by frame: yields the frames it
\* emitted and whether it ran off the clip (pop_count += 1)
RECURSIVE SfxRemaining(_, _, _)
SfxRemaining(pos, i, remaining) ==
    IF i >= remaining THEN [n |-> i, ended |-> FALSE]
    ELSE IF AudioClip_sample(pos) # None
    THEN SfxRemaining(RAdd(pos, SfxDelta), i + 1, remaining)
    ELSE [n |-> i, ended |-> TRUE]

\* the body of `for (position, params) in self.cons.iter_mut()` for one entry
SfxRenderEntry(entry) ==
    LET total  == BufferFrames
        done   == SfxChunks(entry.position, 0, total \div 4)
        pos1   == RAdd(entry.position, RMul(SfxDelta, R(done)))
        rest   == SfxRemaining(pos1, 0, total - done)
        n      == done + rest.n
    IN  [n      |-> n,
         pos    |-> RAdd(entry.position, RMul(SfxDelta, R(n))),
         ended  |-> rest.ended,
         frames |-> [j \in 1..n |->
                       AudioClip_sample(RAdd(entry.position,
                                             RMul(SfxDelta, R(j - 1))))[1]]]

\* data[..] += frame.avg() * amplifier / frame.0 * amplifier, frame.1 * ..
RECURSIVE SfxAccumulate(_, _, _, _)
SfxAccumulate(buf, frames, amp, j) ==
    IF j > Len(frames) THEN buf
    ELSE SfxAccumulate(Accumulate(buf, j - 1, FrameScale(frames[j], amp)),
                       frames, amp, j + 1)

\* (faulty variant: a flag, not a counter)
SfxPoppedOnce(pop_count, ended) == IF ended THEN 1 ELSE pop_count

\* `} else { pop_count += 1; break; }` when sample(pos) is None
SfxPopped(pop_count, ended) == IF ended THEN pop_count + 1 ELSE pop_count

\* `if pop_count == 0 { *position = pos; }`
SfxKeepsPosition(pop_count) == pop_count = 0

\* one entry of the iteration is rendered
SfxEntry ==
    /\ pc = "sfx"
    /\ sfx.k < sfx.iter
    /\ \E entry \in {sfx.ring[sfx.k + 1]} :
       \E r \in {SfxRenderEntry(entry)} :
       \E pops \in {SfxPopped(sfx.pop_count, r.ended)} :
           /\ data' = SfxAccumulate(data, r.frames, entry.amplifier, 1)
           /\ contrib' = SfxAccumulate(contrib, r.frames, entry.amplifier, 1)
           /\ sfx' = [sfx EXCEPT
                        !.k = @ + 1,
                        !.pop_count = pops,
                        !.ring[sfx.k + 1].position =
                            IF SfxKeepsPosition(pops) THEN r.pos ELSE @,
                        !.played[entry.id] = @ \o r.frames,
                        !.reach = IF r.n > @ THEN r.n ELSE @,
                        !.ended = IF r.ended THEN @ \cup {entry.id} ELSE @]
    /\ UNCHANGED <<voice, clip, scenario, pc, sample_rate, channels, cursor,
                   position, delta, dataIn, mix, backend, dec, probe>>

\* unsafe { self.cons.advance(pop_count) }
SfxAdvance ==
    /\ pc = "sfx"
    /\ sfx.k = sfx.iter
    /\ pc' = "idle"
    /\ sfx' = [sfx EXCEPT
                 !.ring = SubSeq(@, sfx.pop_count + 1, Len(@)),
                 !.removed = @ \cup {sfx.ring[i].id : i \in 1..sfx.pop_count}]
    /\ UNCHANGED <<voice, clip, scenario, sample_rate, channels, data, cursor,
                   position, delta, dataIn, contrib, mix, backend, dec, probe>>

NextSfx ==
    \/ \E amp \in scenario.amplifiers : SfxPlay(amp)
    \/ SfxDrop
    \/ \E sr \in scenario.rates, len \in scenario.lens,
          fill \in scenario.fills : SfxCallbackStart(sr, len, fill)
    \/ SfxEntry
    \/ SfxAdvance

\* an sfx voice on the five-frame clip 1..5 at rate 1 with a two-slot queue,
\* rendered at rate 1 into mono or stereo buffers of 2 or 8 slots
InitSfx ==
    /\ \E ch \in {1, 2} :
         MusicNew([frames |-> Mono(<<1, 2, 3, 4, 5>>), sample_rate |-> 1],
                  MusicParams(R(-1), R(1), R(1), 2), ch,
                  [commands |-> {}, amplifiers |-> {R(1), R(2)},
                   rates |-> {1}, lens |-> {2, 8}, fills |-> {R(5)}])
    /\ sfx = SfxNew(SfxCapacity(Some(2)))
    /\ backend = CpalBackendNew
    /\ dec = DecodeIdle
    /\ probe = ProbeIdle

SpecSfx == InitSfx /\ [][NextSfx]_vars

IsPrefix(a, b) == Len(a) <= Len(b) /\ a = SubSeq(b, 1, Len(a))

IsSuffix(a, b) ==
    Len(a) <= Len(b) /\ a = SubSeq(b, Len(b) - Len(a) + 1, Len(b))

(***************************************************************************)
(* C11.  At an output rate equal to the clip's, every successful           *)
(* Sfx::play, overlapping other plays of the same Sfx or not and however   *)
(* the output is cut into buffers, contributes the clip's frames in order, *)
(* each exactly once: what a play has contributed so far is always a       *)
(* prefix of the clip, and it is the whole clip once its entry has been    *)
(* removed from the queue.                                                 *)
(***************************************************************************)
C11_PlayedOnce ==
    \A id \in 1..sfx.plays :
        /\ IsPrefix(sfx.played[id], clip.frames)
        /\ id \in sfx.removed => sfx.played[id] = clip.frames

(***************************************************************************)
(* C12.  The sfx queue never holds more than its capacity; a Sfx::play     *)
(* made while capacity entries are queued returns buffer-full and leaves   *)
(* the queued entries (count, order, positions, amplifiers) as they were;  *)
(* any other play appends exactly one entry, with position 0 and the given *)
(* amplifier, at the tail.                                                 *)
(***************************************************************************)
C12_SfxBufferFull ==
    /\ [](Len(sfx.ring) <= sfx.capacity)
    /\ [][sfx.calls' # sfx.calls =>
            IF Len(sfx.ring) = sfx.capacity
            THEN /\ sfx.result' = "BufferFull"
                 /\ sfx.ring' = sfx.ring
            ELSE /\ sfx.result' = "Ok"
                 /\ Len(sfx.ring') = Len(sfx.ring) + 1
                 /\ SubSeq(sfx.ring', 1, Len(sfx.ring)) = sfx.ring
                 /\ sfx.ring'[Len(sfx.ring')].position = R(0)
                 /\ sfx.ring'[Len(sfx.ring')].amplifier = sfx.arg']_vars

\* a play was refused while a callback was rendering the two queued entries,
\* the older of them already advanced
C12_Witness ==
    /\ sfx.result = "BufferFull"
    /\ sfx.calls = 3
    /\ sfx.plays = 2
    /\ Len(sfx.ring) = sfx.capacity
    /\ pc = "sfx"
    /\ sfx.ring[1].position # R(0)
    /\ sfx.ring[2].amplifier = R(2)

(***************************************************************************)
(* A music voice and an sfx voice on one audio thread.  The owner may drop *)
(* either handle; a render call gets a buffer that is either new or the    *)
(* one the other voice has just rendered into (one mixing round).          *)
(***************************************************************************)
\* the owner drops the Music: the Arc<AtomicState> loses its only strong
\* reference, the renderer's Weak no longer upgrades
DropMusic ==
    /\ music_handle
    /\ music_handle' = FALSE
    /\ state' = [state EXCEPT !.strong = FALSE]
    /\ UNCHANGED <<clip, scenario, rvars, ring, iter, taken, avars, result,
                   nCalls, pushed, applied, hvars, sfx, backend, dec, probe>>

\* MusicRenderer::alive: self.state.strong_count() != 0
MusicRenderer_alive == state.strong

\* the music voice renders into the buffer the sfx voice has rendered into
MusicOnMix ==
    /\ mix.voices = {"sfx"}
    /\ CallbackEnter(sample_rate, data, FALSE)

\* the sfx voice renders into the buffer the music voice has rendered into
SfxOnMix ==
    /\ mix.voices = {"music"}
    /\ SfxCallbackEnter(sample_rate, data, FALSE)

\* the renderers the mixer was given
HasVoice(v) == v \in scenario.voices

\* the steps of the audio thread
AudioThread ==
    \/ /\ HasVoice("music")
       /\ \E sr \in scenario.rates, len \in scenario.lens,
             fill \in scenario.fills : CallbackStart(sr, len, fill)
    \/ HasVoice("music") /\ PopCommand
    \/ HasVoice("music") /\ PrepareDone
    \/ HasVoice("music") /\ RenderFrame
    \/ HasVoice("music") /\ StorePosition
    \/ /\ HasVoice("sfx")
       /\ \E sr \in scenario.rates, len \in scenario.lens,
             fill \in scenario.fills : SfxCallbackStart(sr, len, fill)
    \/ HasVoice("sfx") /\ SfxEntry
    \/ HasVoice("sfx") /\ SfxAdvance

\* the calls the owner of the handles makes
ControlThread ==
    \/ /\ HasVoice("music")
       /\ music_handle
       /\ \E cmd \in scenario.commands : MusicCall(cmd)
    \/ HasVoice("sfx") /\ \E amp \in scenario.amplifiers : SfxPlay(amp)

(***************************************************************************)
(* SpecLife: the lifetime of a voice.  Either a music voice (the clip      *)
(* 1, 2, 3 at rate 2, Resume) or an sfx voice (same clip, a two-slot       *)
(* queue) is in the mixer; its owner may drop the handle at any moment;    *)
(* the audio callback keeps being called with two-slot mono buffers.       *)
(***************************************************************************)
NextLife ==
    \/ AudioThread
    \/ ControlThread
    \/ HasVoice("music") /\ DropMusic
    \/ HasVoice("sfx") /\ SfxDrop

InitLife ==
    /\ \E v \in {"music", "sfx"} :
         MusicNew([frames |-> Mono(<<1, 2, 3>>), sample_rate |-> 2],
                  MusicParams(R(-1), R(1), R(1), 2), 1,
                  [voices |-> {v}, commands |-> {Resume},
                   amplifiers |-> {R(2)}, rates |-> {2}, lens |-> {2},
                   fills |-> {R(5)}])
    /\ sfx = SfxNew(SfxCapacity(Some(2)))
    /\ backend = CpalBackendNew
    /\ dec = DecodeIdle
    /\ probe = ProbeIdle

\* the audio device keeps calling the sfx renderer, and a call that has begun
\* runs to its end.  SfxEntry is enabled exactly when SfxEntryPending holds
\* and each step of it brings the iteration nearer to its end, so weak
\* fairness of SfxEntry is the statement that SfxEntryPending does not hold
\* for ever.
SfxRenderStart ==
    /\ HasVoice("sfx")
    /\ \E sr \in scenario.rates, len \in scenario.lens,
          fill \in scenario.fills : SfxCallbackStart(sr, len, fill)

SfxEntryPending == pc = "sfx" /\ sfx.k < sfx.iter

SfxScheduling ==
    /\ WF_vars(SfxRenderStart)
    /\ []<>(~SfxEntryPending)
    /\ WF_vars(SfxAdvance)

SpecLife == InitLife /\ [][NextLife]_vars /\ SfxScheduling

NextMixer ==
    \/ AudioThread
    \/ ControlThread
    \/ MusicOnMix
    \/ SfxOnMix

InitMixer ==
    /\ MusicNew([frames |-> Mono(<<1, 2, 3>>), sample_rate |-> 1],
                MusicParams(R(-1), R(1), R(1), 2), 1,
                [voices |-> {"music", "sfx"}, commands |-> {Resume},
                 amplifiers |-> {R(2)}, rates |-> {1}, lens |-> {2},
                 fills |-> {R(5)}])
    /\ sfx = SfxNew(SfxCapacity(Some(1)))
    /\ backend = CpalBackendNew
    /\ dec = DecodeIdle
    /\ probe = ProbeIdle

SpecMix == InitMixer /\ [][NextMixer]_vars

\* the slots of the buffer
Slots == 1..Len(data)

\* the slots a voice that stopped after `frames` frames never reached
SlotsAfter(frames) == {j \in Slots : j > frames * channels}

(***************************************************************************)
(* C16: a render call adds to the buffer.  At every moment of a render     *)
(* call and after it, each slot holds what it held when the call began     *)
(* plus what the voice has contributed to it; the slots after the point    *)
(* where the voice ran out, and all slots when the music voice is paused,  *)
(* get no contribution; and within a mixing round each slot holds the      *)
(* content of the buffer the round began with plus the contributions of    *)
(* the voices rendered so far, whichever voice was rendered first.         *)
(***************************************************************************)
C16_VoicesAdd ==
    /\ Len(dataIn) = Len(data) /\ Len(contrib) = Len(data)
    /\ \A j \in Slots : data[j] = RAdd(dataIn[j], contrib[j])
    /\ \A j \in Slots :
         data[j] = RAdd(RAdd(mix.in[j], mix.sum[j]), contrib[j])
    /\ (mix.last = "music" /\ pc \in {"render", "store", "idle"}) =>
         /\ \A j \in SlotsAfter(cursor) : contrib[j] = R(0)
         /\ paused /\ pc = "render" => \A j \in Slots : contrib[j] = R(0)
    /\ (mix.last = "sfx" /\ pc = "idle") =>
         \A j \in SlotsAfter(sfx.reach) : contrib[j] = R(0)

\* both voices have rendered into one buffer, the sfx voice first; each
\* contributed to the first slot and the music voice ran out before the second
C16_Witness ==
    /\ pc = "idle"
    /\ mix.voices = {"music", "sfx"}
    /\ mix.last = "music"
    /\ mix.sum[1] # R(0)
    /\ contrib[1] # R(0)
    /\ cursor = 1
    /\ data[2] = RAdd(mix.in[2], mix.sum[2])

(***************************************************************************)
(* The cpal backend's broken flag.  The stream's error callback runs on a  *)
(* thread of the audio host, consume_broken on the thread of the mixer's   *)
(* owner; each touches the flag in one atomic operation, so the two        *)
(* interleave operation by operation.  backend.raised counts the times the *)
(* flag went from false to true, backend.reported the calls of             *)
(* consume_broken that returned true (history only).                       *)
(***************************************************************************)
MaxErrors == 4

MaxConsumes == 4

StreamErrors == {"DeviceNotAvailable", "BackendSpecific"}

\* (faulty variant: the read does not clear the flag)
FetchAndKeeps(flag, v) == flag

\* AtomicBool::fetch_and: the value the flag holds afterwards
FetchAnd(flag, v) == flag /\ v

\* the error callback of the output stream
ErrorCallback(err) ==
    /\ backend.errors < MaxErrors
    /\ backend' = [backend EXCEPT
                     !.errors = @ + 1,
                     !.broken = IF err = "DeviceNotAvailable" THEN TRUE ELSE @,
                     !.raised = IF err = "DeviceNotAvailable" /\ ~backend.broken
                                THEN @ + 1 ELSE @]
    /\ UNCHANGED <<voice, clip, scenario, avars, dataIn, contrib, mix, sfx,
                   dec, probe>>

\* CpalBackend::consume_broken
ConsumeBroken ==
    /\ backend.calls < MaxConsumes
    /\ backend' = [backend EXCEPT
                     !.calls = @ + 1,
                     !.returned = IF backend.broken THEN "true" ELSE "false",
                     !.broken = FetchAnd(@, FALSE),
                     !.reported = IF backend.broken THEN @ + 1 ELSE @]
    /\ UNCHANGED <<voice, clip, scenario, avars, dataIn, contrib, mix, sfx,
                   dec, probe>>

NextBackend ==
    \/ \E err \in StreamErrors : ErrorCallback(err)
    \/ ConsumeBroken

InitBackend ==
    /\ MusicNew([frames |-> Mono(<<1>>), sample_rate |-> 1],
                MusicParams(R(-1), R(1), R(1), 1), 1,
                [commands |-> {}, amplifiers |-> {}, rates |-> {1},
                 lens |-> {1}, fills |-> {R(0)}])
    /\ Standalone

SpecBackend == InitBackend /\ [][NextBackend]_vars

(***************************************************************************)
(* C15: the broken flag is sticky and read-and-clear.  Only a call of      *)
(* consume_broken clears the flag; the call returns the value the flag     *)
(* held and leaves it false; so every time the flag was raised is reported *)
(* by exactly one call: the raises so far are the calls that returned true *)
(* plus one if the flag is set, whatever the order in which error          *)
(* callbacks and calls interleave.                                         *)
(***************************************************************************)
C15_BrokenFlag ==
    /\ [](backend.raised =
            backend.reported + (IF backend.broken THEN 1 ELSE 0))
    /\ [][(backend.broken /\ ~backend'.broken) =>
            backend'.calls = backend.calls + 1]_vars
    /\ [][backend'.calls # backend.calls =>
            /\ backend'.returned = (IF backend.broken THEN "true" ELSE "false")
            /\ ~backend'.broken]_vars
    /\ [][(backend'.errors # backend.errors /\ backend.broken) =>
            backend'.broken]_vars

\* two episodes, three or more error callbacks: the flag was raised and
\* reported twice, and the last call returned true and left the flag false
C15_Witness ==
    /\ backend.raised = 2
    /\ backend.reported = 2
    /\ backend.errors >= 3
    /\ backend.returned = "true"
    /\ ~backend.broken

(***************************************************************************)
(* AudioClip::sample as a function of the clip and the position.  A clip   *)
(* of 0 to 3 frames at rate 1 or 2 is sampled at positions that f32        *)
(* holds: quarters of a second, and positions 2^-24 or 2^-23 above a       *)
(* frame time.  probe.reads is the set of the indices of `frames` the call *)
(* read (history only).                                                    *)
(***************************************************************************)
\* the indices self.0.frames[..] is read at, on the path the call takes
SampleReads(pos) ==
    LET p            == RMul(pos, R(clip.sample_rate))
        actual_index == AsUsize(p)
        t            == RSub(p, R(actual_index))
    IN  IF actual_index >= frame_count THEN {}
        ELSE IF RLt(t, F32Epsilon) THEN {actual_index}
        ELSE IF actual_index + 1 >= frame_count THEN {actual_index}
        ELSE {actual_index, actual_index + 1}

\* clip.sample(pos)
SampleCall(pos) ==
    /\ probe' = [called |-> TRUE, pos |-> pos, out |-> AudioClip_sample(pos),
                 reads |-> SampleReads(pos)]
    /\ UNCHANGED <<voice, clip, scenario, avars, dataIn, contrib, mix, sfx,
                   backend, dec>>

NextSample == \E pos \in scenario.positions : SampleCall(pos)

InitSample ==
    /\ \E xs \in {<<>>, <<1>>, <<0, 1>>, <<1, 3, 7>>}, rate \in {1, 2} :
         MusicNew([frames |-> Mono(xs), sample_rate |-> rate],
                  MusicParams(R(-1), R(1), R(1), 1), 1,
                  [commands |-> {}, amplifiers |-> {}, rates |-> {1},
                   lens |-> {1}, fills |-> {R(0)},
                   positions |->
                     {<<k, 4>> : k \in {1, 3, 5, 7}}
                     \cup {<<k, 2>> : k \in {1, 3, 5}}
                     \cup {R(k) : k \in 0..3}
                     \cup {<<1, 16777216>>, <<1, 8388608>>,
                           <<1, 4194304>>, <<8388609, 8388608>>,
                           <<8388609, 4194304>>}])
    /\ Standalone

SpecSample == InitSample /\ [][NextSample]_vars

\* i = floor(p * r) and t = p * r - i of the last call
ProbeIndex == RFloor(RMul(probe.pos, R(clip.sample_rate)))

ProbeT == RSub(RMul(probe.pos, R(clip.sample_rate)), R(ProbeIndex))

\* frames[min(i + 1, n - 1)]
ProbeNextFrame ==
    clip.frames[(IF ProbeIndex + 1 < frame_count
                 THEN ProbeIndex + 1 ELSE frame_count - 1) + 1]

\* what the call returns when frames[i] is returned as it is in the case
\* `as_is` and interpolated otherwise
SampleExpected(as_is) ==
    IF ProbeIndex >= frame_count THEN None
    ELSE IF as_is
    THEN Some(clip.frames[ProbeIndex + 1])
    ELSE Some(FrameInterpolate(clip.frames[ProbeIndex + 1], ProbeNextFrame,
                               ProbeT))

(***************************************************************************)
(* C14, as stated: sample(p) is none when i >= n, and so for every         *)
(* p >= length; it is frames[i] exactly when t = 0 and otherwise           *)
(* interp(frames[i], frames[min(i + 1, n - 1)], t); it reads no index      *)
(* outside 0..n-1.                                                         *)
(***************************************************************************)
C14_Sample_AsStated ==
    probe.called =>
        /\ probe.out = SampleExpected(ProbeT = R(0))
        /\ RLe(ClipLength, probe.pos) => probe.out = None
        /\ probe.reads \subseteq 0..(frame_count - 1)

(***************************************************************************)
(* C14, amended: sample(p) is none when i >= n, and so for every           *)
(* p >= length; it is frames[i] when t < f32::EPSILON and otherwise        *)
(* interp(frames[i], frames[min(i + 1, n - 1)], t); it reads no index      *)
(* outside 0..n-1.                                                         *)
(***************************************************************************)
C14_Sample ==
    probe.called =>
        /\ probe.out = SampleExpected(RLt(ProbeT, F32Epsilon))
        /\ RLe(ClipLength, probe.pos) => probe.out = None
        /\ probe.reads \subseteq 0..(frame_count - 1)

\* a position 2^-24 s into a clip of two different frames at rate 1: t is
\* above 0 and below f32::EPSILON, and the first frame is returned as it is
C14_Witness ==
    /\ probe.called
    /\ frame_count = 2
    /\ ProbeIndex = 0
    /\ RLt(R(0), ProbeT) /\ RLt(ProbeT, F32Epsilon)
    /\ probe.out = Some(clip.frames[1])
    /\ probe.reads = {0}

(***************************************************************************)
(* AudioClip::decode, from the first next_packet() on.  dec.stream is what *)
(* the format reader and the decoder will deliver: the packets             *)
(* next_packet() returns before its first error, each with the frames or   *)
(* the error decoder.decode gives for it, and dec.end is the kind of that  *)
(* first error of the reader.  dec.chunk_size stands for CHUNK_SIZE, which *)
(* is 4096 in the code; 2 and 3 bring the drain inside the loop within     *)
(* reach of short streams.                                                 *)
(*   pc       "read" (the while loop), "drain" (the drain inside it),      *)
(*            "tail" (the loop after it), "done"                           *)
(*   result   "none", "Ok" (frames returned) or "Err"                      *)
(***************************************************************************)
MaxPackets == 3

\* what decoder.decode(&packet) can give: frames, or an error
Packets ==
    {[frames |-> Mono(<<1>>), err |-> "none"],
     [frames |-> Mono(<<2, 3>>), err |-> "none"],
     [frames |-> <<>>, err |-> "DecodeError: invalid main_data offset"],
     [frames |-> <<>>, err |-> "DecodeError: other"],
     [frames |-> <<>>, err |-> "IoError"]}

\* the errors next_packet() ends the stream with
ReaderErrors == {"IoError: UnexpectedEof", "IoError: other", "ResetRequired"}

Streams == UNION {[1..k -> Packets] : k \in 0..MaxPackets}

\* (faulty variant: every DecodeError is skipped)
DecodeSkipsAll(packet) ==
    packet.err \in {"DecodeError: invalid main_data offset",
                    "DecodeError: other"}

\* Err(DecodeError(s)) if s.contains("invalid main_data offset") => continue
DecodeSkips(packet) == packet.err = "DecodeError: invalid main_data offset"

DecodeStart(stream, end, chunk_size) ==
    [stream |-> stream, end |-> end, chunk_size |-> chunk_size, read |-> 0,
     packets |-> <<>>, frames |-> <<>>, pc |-> "read", result |-> "none"]

\* one turn of `while let Ok(packet) = format_reader.next_packet()`: the
\* packet is pushed, or the loop ends, on whatever error the reader gave
NextPacket ==
    /\ dec.pc = "read"
    /\ dec' = IF dec.read < Len(dec.stream)
              THEN [dec EXCEPT
                      !.read = @ + 1,
                      !.packets = Append(@, dec.stream[dec.read + 1]),
                      !.pc = IF Len(dec.packets) + 1 >= dec.chunk_size
                             THEN "drain" ELSE "read"]
              ELSE [dec EXCEPT !.pc = "tail"]
    /\ UNCHANGED <<voice, clip, scenario, avars, dataIn, contrib, mix, sfx,
                   backend, probe>>

\* one packet of `for packet in packets.drain(..)` / `for packet in packets`:
\* decoder.decode(&packet), load_frames_from_buffer_ref
DecodePacket ==
    /\ dec.pc \in {"drain", "tail"}
    /\ dec.packets # <<>>
    /\ dec' = IF Head(dec.packets).err = "none"
              THEN [dec EXCEPT !.packets = Tail(@),
                               !.frames = @ \o Head(dec.packets).frames]
              ELSE IF DecodeSkips(Head(dec.packets))
              THEN [dec EXCEPT !.packets = Tail(@)]
              ELSE [dec EXCEPT !.pc = "done", !.result = "Err"]
    /\ UNCHANGED <<voice, clip, scenario, avars, dataIn, contrib, mix, sfx,
                   backend, probe>>

\* the packets at hand are used up: back to next_packet(), or
\* Ok((frames, sample_rate))
DecodeLoopEnd ==
    /\ dec.pc \in {"drain", "tail"}
    /\ dec.packets = <<>>
    /\ dec' = IF dec.pc = "drain" THEN [dec EXCEPT !.pc = "read"]
              ELSE [dec EXCEPT !.pc = "done", !.result = "Ok"]
    /\ UNCHANGED <<voice, clip, scenario, avars, dataIn, contrib, mix, sfx,
                   backend, probe>>

NextDecode ==
    \/ NextPacket
    \/ DecodePacket
    \/ DecodeLoopEnd

InitDecode ==
    /\ MusicNew([frames |-> Mono(<<1>>), sample_rate |-> 1],
                MusicParams(R(-1), R(1), R(1), 1), 1,
                [commands |-> {}, amplifiers |-> {}, rates |-> {1},
                 lens |-> {1}, fills |-> {R(0)}])
    /\ sfx = SfxAbsent
    /\ backend = CpalBackendNew
    /\ probe = ProbeIdle
    /\ \E stream \in Streams, end \in ReaderErrors,
          chunk_size \in {2, 3, 4096} :
         dec = DecodeStart(stream, end, chunk_size)

SpecDecode == InitDecode /\ [][NextDecode]_vars

\* the frames of the packets of `stream` that decoded, in packet order
RECURSIVE DecodedFrames(_)
DecodedFrames(stream) ==
    IF stream = <<>> THEN <<>>
    ELSE Head(stream).frames \o DecodedFrames(Tail(stream))

\* a packet of the stream has a decode error other than the tolerated one
Undecodable ==
    \E i \in 1..Len(dec.stream) :
        dec.stream[i].err \notin
            {"none", "DecodeError: invalid main_data offset"}

(***************************************************************************)
(* C17: when next_packet() fails with the end-of-stream IO error the loop  *)
(* ends normally and decode returns the frames collected; when it fails    *)
(* with any other error decode returns a failure.                          *)
(***************************************************************************)
C17_ReaderErrors ==
    dec.pc = "done" =>
        /\ (dec.end = "IoError: UnexpectedEof" /\ ~Undecodable) =>
              dec.result = "Ok" /\ dec.frames = DecodedFrames(dec.stream)
        /\ dec.end # "IoError: UnexpectedEof" => dec.result = "Err"

(***************************************************************************)
(* C18: decode returns the frames of the packets that decoded, in packet   *)
(* order; a packet whose decode error is "invalid main_data offset" adds   *)
(* no frames and decoding goes on; any other decode error of a packet      *)
(* makes decode fail; whatever the chunk size.                             *)
(***************************************************************************)
C18_PacketErrors ==
    dec.pc = "done" =>
        IF Undecodable THEN dec.result = "Err"
        ELSE dec.result = "Ok" /\ dec.frames = DecodedFrames(dec.stream)

\* three packets, drained in a chunk of two and a rest of one: frames, the
\* tolerated error, frames; both packets' frames are returned in order
C18_Witness ==
    /\ dec.pc = "done"
    /\ dec.result = "Ok"
    /\ dec.chunk_size = 2
    /\ Len(dec.stream) = 3
    /\ dec.stream[1].frames = Mono(<<2, 3>>)
    /\ dec.stream[2].err = "DecodeError: invalid main_data offset"
    /\ dec.stream[3].frames = Mono(<<1>>)
    /\ dec.frames = Mono(<<2, 3, 1>>)

(***************************************************************************)
(* SpecSeek: seeking.  The clip 1, 2, 3, 4 at rate 2 (two seconds), played *)
(* once or looped without crossfade, at playback rate 1 or 2; the owner    *)
(* may send Resume, FadeOut and SeekTo to 3/2 s and to 3 s (past the end); *)
(* callbacks of two mono slots run at 2 or 4 Hz.                           *)
(***************************************************************************)
InitSeek ==
    /\ Standalone
    /\ \E m \in {-1, 0}, rate \in {1, 2} :
        MusicNew([frames |-> Mono(<<1, 2, 3, 4>>), sample_rate |-> 2],
                 MusicParams(R(m), R(1), R(rate), 2), 1,
                 [commands |-> {Resume, FadeOut(R(1)),
                                SeekTo(<<3, 2>>), SeekTo(R(3))},
                  rates |-> {2, 4}, lens |-> {2}, fills |-> {R(0)}])

SpecSeek == InitSeek /\ [][Next]_vars

\* round(p * sr / playback_rate) of the last SeekTo applied
SoughtIndex ==
    RRound(RDiv(RMul(seekObs.arg, R(seekObs.rate)), settings.playback_rate))

\* index * playback_rate / sr of the last SeekTo applied
SoughtPosition ==
    RDiv(RMul(R(seekObs.index), settings.playback_rate), R(seekObs.rate))

\* the callback that applied the last SeekTo has applied no command after it
\* and has not yet called frame()
JustSought ==
    /\ seekObs.sought
    /\ nCallbacks = seekObs.n
    /\ Len(applied) = seekObs.applied
    /\ pc = "prepare" \/ (pc = "render" /\ cursor = 0)

\* the last frame() call emitted the first frame since the last SeekTo
FirstFrameSinceSeek ==
    /\ seekObs.sought
    /\ nEmitted = seekObs.emitted + 1
    /\ lastFrame.out # None

\* SeekTo writes index and nothing else of the renderer
SeekToKeepsTheRest ==
    [][seekObs'.applied # seekObs.applied =>
         /\ paused' = paused
         /\ settings' = settings
         /\ low_pass' = low_pass
         /\ fade_time' = fade_time
         /\ fade_current' = fade_current
         /\ state' = state]_vars

RendersAnEntry == pc = "sfx" /\ sfx.k < sfx.iter /\ sfx'.k = sfx.k + 1

\* the frames the entry at sfx.k + 1 contributes in the step
RenderedInStep ==
    Len(sfx'.played[sfx.ring[sfx.k + 1].id])
        - Len(sfx.played[sfx.ring[sfx.k + 1].id])

(***************************************************************************)
(* C22.  In every sfx callback each entry that rendered the whole buffer   *)
(* without running past the clip has its stored position advanced by      *)
(* exactly frames / sample_rate, whatever other entries did in that        *)
(* callback.                                                               *)
(***************************************************************************)
C22_PositionAdvances ==
    [][(/\ RendersAnEntry
        /\ RenderedInStep = BufferFrames
        /\ sfx.ring[sfx.k + 1].id \notin sfx'.ended) =>
         sfx'.ring[sfx.k + 1].position =
             RAdd(sfx.ring[sfx.k + 1].position,
                  RDiv(R(BufferFrames), R(sample_rate)))]_vars

\* the ids queued, oldest first
QueuedIds(queue) == {queue[i].id : i \in 1..Len(queue)}

(***************************************************************************)
(* C23.  At the end of every sfx callback the entries removed from the     *)
(* queue are exactly those that ran past the end of the clip in that       *)
(* callback: no entry with frames left is popped, none that ran out stays, *)
(* and the entries that stay keep their order.                             *)
(***************************************************************************)
C23_PopsTheEnded ==
    [][(pc = "sfx" /\ pc' = "idle") =>
         /\ sfx'.removed \ sfx.removed = sfx.ended
         /\ QueuedIds(sfx'.ring) = QueuedIds(sfx.ring) \ sfx.ended
         /\ IsSuffix(sfx'.ring, sfx.ring)]_vars

\* a callback has just returned in which the older of two plays ran past
\* the end of the clip and was removed, and the newer one stays queued
C23_Witness ==
    /\ pc = "idle"
    /\ sfx.ended = {1}
    /\ sfx.removed = {1}
    /\ QueuedIds(sfx.ring) = {2}
    /\ Len(sfx.played[2]) > 0

(***************************************************************************)
(* SpecFadeRate: fades across sample-rate changes.  Eight frames at rate 4 *)
(* (two seconds), played once; the owner may send Resume, FadeIn(1),       *)
(* FadeOut(1) and SeekTo(1/2); callbacks of two mono slots run at 1, 2 or  *)
(* 4 Hz.                                                                   *)
(***************************************************************************)
InitFadeRate ==
    /\ Standalone
    /\ MusicNew([frames |-> Mono(<<1, 2, 3, 4, 5, 6, 7, 8>>),
                 sample_rate |-> 4],
                MusicParams(R(-1), R(1), R(1), 2), 1,
                [commands |-> {Resume, FadeIn(R(1)), FadeOut(R(1)),
                               SeekTo(<<1, 2>>)},
                 rates |-> {1, 2, 4}, lens |-> {2}, fills |-> {R(0)}])

SpecFadeRate == InitFadeRate /\ [][Next]_vars

\* fade_time != 0
FadeActive == fade_time # 0

(***************************************************************************)
(* C24.  In every reachable state of the music voice index >= 0, and while *)
(* a fade is active the fade cursor stays within the fade: |fade_current|  *)
(* <= |fade_time|, and fade_current is 0 or has the sign of the fade       *)
(* (positive for the fade-in, negative for the fade-out last commanded).   *)
(***************************************************************************)
C24_FadeCursorBounds ==
    /\ index >= 0
    /\ FadeActive =>
         /\ Abs(fade_current) <= Abs(fade_time)
         /\ fade_time > 0 => fade_current >= 0 /\ fadeObs.mode = "FadeIn"
         /\ fade_time < 0 => fade_current <= 0 /\ fadeObs.mode = "FadeOut"

\* a fade-out of 4 frames, 2 of them done, was rescaled from 4 Hz to 1 Hz:
\* the cursor has caught up with the fade length and the fade is still active
C24_Witness ==
    /\ FadeActive
    /\ fade_time = -1
    /\ fade_current = -1
    /\ fadeObs.mode = "FadeOut"
    /\ rescaleObs.n = nCallbacks
    /\ sample_rate = 1

(***************************************************************************)
(* SpecFadeOut: short fade-outs.  Eight frames at rate 1 (eight seconds),  *)
(* played once; the owner may send Resume, FadeOut(0) and FadeOut(1/4);    *)
(* callbacks of four mono slots run at 1 or 4 Hz.                          *)
(***************************************************************************)
InitFadeOut ==
    /\ Standalone
    /\ MusicNew([frames |-> Mono(<<1, 2, 3, 4, 5, 6, 7, 8>>),
                 sample_rate |-> 1],
                MusicParams(R(-1), R(1), R(1), 2), 1,
                [commands |-> {Resume, FadeOut(R(0)), FadeOut(<<1, 4>>)},
                 rates |-> {1, 4}, lens |-> {4}, fills |-> {R(0)}])

SpecFadeOut == InitFadeOut /\ [][Next]_vars

\* the longest a fade-out of t seconds is in frames, at the rates in use
LongestFade(t) ==
    CHOOSE n \in {-FadeSamples(RNeg(t), r) : r \in scenario.rates} :
        \A r \in scenario.rates : -FadeSamples(RNeg(t), r) <= n

\* frames that are enough for a fade-out of t seconds to complete, also when
\* the rate changes during the fade
EnoughFrames(t) == 2 * LongestFade(t) + 2

\* the last command applied is a FadeOut, and the voice has rendered
\* EnoughFrames in-clip frames since
FadedOutLongEnough ==
    /\ Len(applied) > 0
    /\ applied[Len(applied)].op = "FadeOut"
    /\ fadeObs.mode = "FadeOut"
    /\ fadeObs.k >= EnoughFrames(applied[Len(applied)].arg)

(***************************************************************************)
(* C25.  After FadeOut(t) with any t >= 0, also one that rounds to 0       *)
(* frames, on a playing voice and with no other command, the voice is      *)
(* paused once enough in-clip frames have been rendered, also when the     *)
(* sample rate changes during the fade.                                    *)
(***************************************************************************)
C25_FadeOutPauses == FadedOutLongEnough => paused

(***************************************************************************)
(* Looping voices and long buffers (SpecLoop), fades on looping voices     *)
(* (SpecFade).                                                             *)
(***************************************************************************)
\* loop_mix_time >= 0
Looping == RLe(R(0), settings.loop_mix_time)

(***************************************************************************)
(* C26.  On a looping voice with a non-empty clip the playback position    *)
(* index * delta is at most the clip length after every callback, whatever *)
(* the buffer length, also one longer than the clip.                       *)
(***************************************************************************)
C26_LoopStaysInClip ==
    (Looping /\ CallbackReturned) => RLe(RMul(R(index), delta), ClipLength)

\* the step is a frame() call that emitted a frame while a fade was active
EmitsWhileFading ==
    /\ pc = "render"
    /\ fade_time # 0
    /\ nEmitted' = nEmitted + 1

\* the fade multiplier of the frame just emitted, from the cursor after it
FadeMultiplierAfter(time, current) ==
    IF Abs(current) >= Abs(time) THEN R(1)
    ELSE IF time > 0 THEN RNorm(current, time)
    ELSE RSub(R(1), RNorm(current, time))

(***************************************************************************)
(* C27.  While a fade is active on a looping voice every frame the voice   *)
(* emits, those on the loop-rewind path included, moves the fade cursor by *)
(* one and is scaled by amplifier times the fade multiplier.               *)
(***************************************************************************)
C27_FadeOnEveryFrame ==
    [][(Looping /\ EmitsWhileFading) =>
         /\ Abs(fade_current') = Abs(fade_current) + 1
         /\ lastFrame'.out =
              Some(FrameScale(lastFrame'.raw,
                     RMul(settings.amplifier,
                          FadeMultiplierAfter(fade_time, fade_current'))))]_vars

(***************************************************************************)
(* The data callbacks of the cpal output stream.  SpecCallback: a stream   *)
(* of one or two channels on a CPU with neither sse2 nor avx2, with sse2,  *)
(* or with both; the device hands the callback buffers of 0 to MaxBuffer   *)
(* samples, a whole number of frames.  What Mixer::render_mono,            *)
(* process_avx2 and process_sse2 compute is not part of this model: a      *)
(* sample they were given is marked TRUE.  The latency record              *)
(* (rec.push(delay)) is left out.                                          *)
(***************************************************************************)
MaxBuffer == 18

MaxDataCallbacks == 2

\* is_x86_feature_detected!: the lanes of the branch render_stereo_simd
\* takes, 0 when it takes none
SimdLanes ==
    IF "avx2" \in backend.stream.features THEN 8
    ELSE IF "sse2" \in backend.stream.features THEN 4
    ELSE 0

\* the mixer is given n samples of the buffer, from offset `from`
MixerProcess(buf, from, n) ==
    [i \in 1..Len(buf) |-> IF i > from /\ i <= from + n THEN TRUE ELSE buf[i]]

\* the device calls the data callback on a fresh buffer of len samples
DataCallback(len) ==
    /\ backend.dpc = "idle"
    /\ backend.ncb < MaxDataCallbacks
    /\ len % backend.stream.channels = 0
    /\ backend' = [backend EXCEPT
                     !.buf = [i \in 1..len |-> FALSE],
                     !.at = 0,
                     !.ncb = @ + 1,
                     !.dpc = IF backend.stream.channels = 1
                             THEN "mono" ELSE "simd"]
    /\ UNCHANGED <<voice, clip, scenario, avars, dataIn, contrib, mix, sfx,
                   dec, probe>>

\* config.channels == 1: mixer.render_mono(data)
MonoCallback ==
    /\ backend.dpc = "mono"
    /\ backend' = [backend EXCEPT
                     !.buf = MixerProcess(@, 0, Len(@)),
                     !.at = Len(backend.buf),
                     !.dpc = "idle"]
    /\ UNCHANGED <<voice, clip, scenario, avars, dataIn, contrib, mix, sfx,
                   dec, probe>>

\* render_stereo_simd: one chunk of data.chunks_exact_mut(lanes)
SimdChunk ==
    /\ backend.dpc = "simd"
    /\ SimdLanes # 0
    /\ backend.at + SimdLanes <= Len(backend.buf)
    /\ backend' = [backend EXCEPT
                     !.buf = MixerProcess(@, backend.at, SimdLanes),
                     !.at = @ + SimdLanes]
    /\ UNCHANGED <<voice, clip, scenario, avars, dataIn, contrib, mix, sfx,
                   dec, probe>>

\* render_stereo_simd returns: chunks_exact_mut has no whole chunk left, or
\* neither feature was detected
SimdReturn ==
    /\ backend.dpc = "simd"
    /\ SimdLanes = 0 \/ backend.at + SimdLanes > Len(backend.buf)
    /\ backend' = [backend EXCEPT !.dpc = "idle"]
    /\ UNCHANGED <<voice, clip, scenario, avars, dataIn, contrib, mix, sfx,
                   dec, probe>>

NextCallback ==
    \/ \E len \in 0..MaxBuffer : DataCallback(len)
    \/ MonoCallback
    \/ SimdChunk
    \/ SimdReturn

InitCallback ==
    /\ MusicNew([frames |-> Mono(<<1>>), sample_rate |-> 1],
                MusicParams(R(-1), R(1), R(1), 1), 1,
                [commands |-> {}, amplifiers |-> {}, rates |-> {1},
                 lens |-> {1}, fills |-> {R(0)}])
    /\ sfx = SfxAbsent
    /\ dec = DecodeIdle
    /\ probe = ProbeIdle
    /\ \E ch \in {1, 2}, cpu \in {{}, {"sse2"}, {"sse2", "avx2"}} :
         backend = [CpalBackendNew EXCEPT
                      !.stream = [channels |-> ch, features |-> cpu]]

SpecCallback == InitCallback /\ [][NextCallback]_vars

\* a data callback has returned
DataCallbackReturned == backend.dpc = "idle" /\ backend.ncb > 0

(***************************************************************************)
(* C28.  On every callback of a stream whose channel count is not 1 every  *)
(* sample of the device buffer has been processed by the mixer when the    *)
(* callback returns, for every buffer length and every CPU feature set.    *)
(***************************************************************************)
C28_EverySampleProcessed ==
    (DataCallbackReturned /\ backend.stream.channels # 1) =>
        \A i \in 1..Len(backend.buf) : backend.buf[i]

=============================================================================
